---- MODULE Spec2Model ----
(***************************************************************************)
(* Ordering engine of the curriculum tracker: the phases / weeks / days    *)
(* tables with their order_index columns and uniqueness constraints, the   *)
(* append operations (create_phase, create_week, create_day,               *)
(* api_add_resource), delete_structure_item, get_or_create_inbox and the   *)
(* reorder_structure transaction; the resources table with its sort_order  *)
(* column and the two resource reorder handlers; the schedule projector    *)
(* (calculate_schedule), the recalculator (recalculate_schedule_from) and  *)
(* the blocked_days table.                                                 *)
(***************************************************************************)
EXTENDS Integers, Sequences, FiniteSets, TLC

\* ------------------------------------------------------------------ bounds
\* number of ids each SERIAL sequence may hand out
MaxPhases == 1
MaxWeeks == 2
MaxDays == 3
MaxResources == 3
\* resources the specification of the resource order lets exist
MaxOrdered == 2
\* new_index values a caller may send: 0..MaxIndex
MaxIndex == 2
\* reorder_structure is not explored once a week/day order_index would pass this
MaxOrder == 3
\* calendar dates are day numbers 1..MaxDate; no request is explored that would
\* schedule a resource after MaxDate
MaxDate == 3
\* new_position values a caller may send to the resource reorder handlers
MaxPosition == 2
MaxLogs == 3
MaxLogDate == 4

\* ------------------------------------------------------- program constants
\* temporary order_index of the item pulled out by reorder_structure
SENTINEL == -9999
\* order_index of the 'Migrated Items' phase
INBOX_PHASE_ORDER == 99999
\* order_index of the 'Unsorted' week and of the 'Inbox' day
INBOX_CHILD_ORDER == 1
\* COALESCE default of MAX(order_index) in create_phase/create_week/create_day
CONTAINER_MAX_DEFAULT == -1
\* COALESCE default of MAX(sort_order) in api_add_resource
RESOURCE_MAX_DEFAULT == 0
\* DEFAULT of the column resources.sort_order
SORT_ORDER_DEFAULT == 0
\* reorder_resource numbers the resources of a day i * POSITION_STEP and puts the
\* moved one at new_position * POSITION_STEP + MOVED_OFFSET
POSITION_STEP == 10
MOVED_OFFSET == 5

Users == {1, 2}
Models == {"phase", "week", "day"}
\* NULL of a nullable column, and the parent of a phase (phases have no parent column)
NULL == 0

VARIABLES
    db,     \* committed tables: db.phases, db.weeks, db.days, db.resources : id -> row,
            \* db.blocked_days : date -> row
    seq,    \* the SERIAL sequence of each table: last id handed out
    last,   \* the last request served and its outcome
    txn,    \* the transaction each connection has open on the tables; in the
            \* schedule specifications, the handler that has committed and not returned
    hist    \* the moves committed since the connections were last both idle

vars == <<db, seq, last, txn, hist>>

Tables == {"phases", "weeks", "days", "resources"}

\* ------------------------------------------------------------ the schema
\* a schema without the three uniqueness constraints
UniqueViolatedOff(t) == FALSE

\* uq_phases_user_order, uq_weeks_user_phase_order, uq_days_user_week_order:
\* two rows of one table with equal (user_id, parent, order_index)
UniqueViolated(t) ==
    \E a \in DOMAIN t, b \in DOMAIN t :
        /\ a # b
        /\ t[a].user_id = t[b].user_id
        /\ t[a].parent = t[b].parent
        /\ t[a].order_index = t[b].order_index

\* the children of parent p that belong to user u
Siblings(t, u, p) == {i \in DOMAIN t : t[i].user_id = u /\ t[i].parent = p}

Max(S) == CHOOSE x \in S : \A y \in S : y <= x

\* SELECT COALESCE(MAX(order_index), dflt) FROM t WHERE user_id = u AND parent = p
MaxOrderIndex(t, u, p, dflt) ==
    LET S == {t[i].order_index : i \in {j \in DOMAIN t : t[j].user_id = u /\ t[j].parent = p}}
    IN IF S = {} THEN dflt ELSE Max(S)

\* SELECT COALESCE(MAX(sort_order), dflt) FROM resources WHERE day_id = d
MaxSortOrder(t, d, dflt) ==
    LET S == {t[i].sort_order : i \in {j \in DOMAIN t : t[j].day_id = d}}
    IN IF S = {} THEN dflt ELSE Max(S)

\* INSERT of one row with the next id of the table's sequence
Insert(t, id, row) == [i \in DOMAIN t \cup {id} |-> IF i = id THEN row ELSE t[i]]

\* DELETE of the rows S
Delete(t, S) == [i \in DOMAIN t \ S |-> t[i]]

ContainerRow(u, p, title, o) == [user_id |-> u, parent |-> p, title |-> title, order_index |-> o]

NoRequest == [op |-> "none", model |-> "none", user_id |-> 0, item_id |-> 0,
              new_parent_id |-> 0, new_index |-> 0, result |-> "none",
              order |-> 0, attempts |-> 0, old_parent_id |-> 0, old_order_index |-> 0]

\* value of last in the specifications that keep no record of the requests
Untraced == [NoRequest EXCEPT !.op = "untraced"]

\* the record a request leaves in last
Log(r) == IF last.op = "untraced" THEN last ELSE r

EmptyTables == [phases |-> <<>>, weeks |-> <<>>, days |-> <<>>, resources |-> <<>>,
                blocked_days |-> <<>>]

\* the two connections that can run reorder_structure at the same time
Procs == {1, 2}

Other(p) == CHOOSE q \in Procs : q # p

\* a connection with no transaction open
Idle == [pc |-> "idle", model |-> "none", item_id |-> 0, new_parent_id |-> 0,
         new_index |-> 0, user_id |-> 0, old_parent_id |-> 0, old_order_index |-> 0,
         snap |-> <<>>, w |-> <<>>, held |-> {}, pending |-> {}, written |-> {},
         stale |-> {}, k |-> 0]

NoArgs == [model |-> "none", item_id |-> 0, new_parent_id |-> 0, new_index |-> 0,
           user_id |-> 0]

NoHist == [base |-> EmptyTables, done |-> [p \in Procs |-> NoArgs],
           outcome |-> [p \in Procs |-> "none"], ran |-> [p \in Procs |-> FALSE],
           concurrent |-> FALSE]

\* the connections as the one-at-a-time specifications leave them
NoTxn == txn = [p \in Procs |-> Idle] /\ hist = NoHist

Init ==
    /\ db = EmptyTables
    /\ seq = [phases |-> 0, weeks |-> 0, days |-> 0, resources |-> 0]
    /\ last = NoRequest
    /\ NoTxn

\* the same start, without the record of requests
InitAll ==
    /\ db = EmptyTables
    /\ seq = [phases |-> 0, weeks |-> 0, days |-> 0, resources |-> 0]
    /\ last = Untraced
    /\ NoTxn

\* ------------------------------------------------------------- appends
\* the order_index create_phase / create_week / create_day give the new row
NewOrder(t, u, p) == MaxOrderIndex(t, u, p, CONTAINER_MAX_DEFAULT) + 1

\* create_phase(user_id, title)
create_phase(u) ==
    /\ seq.phases < MaxPhases
    /\ LET id == seq.phases + 1
           o == NewOrder(db.phases, u, NULL)
           t == Insert(db.phases, id, ContainerRow(u, NULL, "T", o))
       IN /\ seq' = [seq EXCEPT !.phases = id]
          /\ IF UniqueViolated(t)
             THEN /\ db' = db
                  /\ last' = Log([NoRequest EXCEPT !.op = "create", !.model = "phase", !.user_id = u,
                                               !.result = "db_error"])
             ELSE /\ db' = [db EXCEPT !.phases = t]
                  /\ last' = Log([NoRequest EXCEPT !.op = "create", !.model = "phase", !.user_id = u,
                                               !.item_id = id, !.order = o, !.result = "ok"])

\* create_week(user_id, phase_id, title)
create_week(u, p) ==
    /\ seq.weeks < MaxWeeks
    /\ IF ~(p \in DOMAIN db.phases /\ db.phases[p].user_id = u)
       THEN /\ UNCHANGED <<db, seq>>
            /\ last' = Log([NoRequest EXCEPT !.op = "create", !.model = "week",
                                         !.result = "not_found"])
       ELSE LET id == seq.weeks + 1
                o == NewOrder(db.weeks, u, p)
                t == Insert(db.weeks, id, ContainerRow(u, p, "T", o))
            IN /\ seq' = [seq EXCEPT !.weeks = id]
               /\ IF UniqueViolated(t)
                  THEN /\ db' = db
                       /\ last' = Log([NoRequest EXCEPT !.op = "create", !.model = "week",
                                        !.user_id = u, !.new_parent_id = p, !.result = "db_error"])
                  ELSE /\ db' = [db EXCEPT !.weeks = t]
                       /\ last' = Log([NoRequest EXCEPT !.op = "create", !.model = "week",
                                        !.user_id = u, !.new_parent_id = p, !.item_id = id,
                                        !.order = o, !.result = "ok"])

\* create_day(user_id, week_id, title)
create_day(u, w) ==
    /\ seq.days < MaxDays
    /\ IF ~(w \in DOMAIN db.weeks /\ db.weeks[w].user_id = u)
       THEN /\ UNCHANGED <<db, seq>>
            /\ last' = Log([NoRequest EXCEPT !.op = "create", !.model = "day",
                                         !.result = "not_found"])
       ELSE LET id == seq.days + 1
                o == NewOrder(db.days, u, w)
                t == Insert(db.days, id, ContainerRow(u, w, "T", o))
            IN /\ seq' = [seq EXCEPT !.days = id]
               /\ IF UniqueViolated(t)
                  THEN /\ db' = db
                       /\ last' = Log([NoRequest EXCEPT !.op = "create", !.model = "day",
                                        !.user_id = u, !.new_parent_id = w, !.result = "db_error"])
                  ELSE /\ db' = [db EXCEPT !.days = t]
                       /\ last' = Log([NoRequest EXCEPT !.op = "create", !.model = "day",
                                        !.user_id = u, !.new_parent_id = w, !.item_id = id,
                                        !.order = o, !.result = "ok"])

\* ------------------------------------------------------------- delete
\* ON DELETE CASCADE of weeks.phase_id and days.week_id, ON DELETE SET NULL of
\* resources.day_id: the tables after the rows S of table tn are deleted
CascadeDelete(d, tn, S) ==
    LET ph == IF tn = "phases" THEN S ELSE {}
        wk == IF tn = "weeks" THEN S
              ELSE {w \in DOMAIN d.weeks : d.weeks[w].parent \in ph}
        dy == IF tn = "days" THEN S
              ELSE {x \in DOMAIN d.days : d.days[x].parent \in wk}
    IN [phases |-> Delete(d.phases, ph),
        weeks |-> Delete(d.weeks, wk),
        days |-> Delete(d.days, dy),
        resources |-> [r \in DOMAIN d.resources |->
                          IF d.resources[r].day_id \in dy
                          THEN [d.resources[r] EXCEPT !.day_id = NULL]
                          ELSE d.resources[r]],
        blocked_days |-> d.blocked_days]

TableOf(model) == CASE model = "phase" -> "phases" [] model = "week" -> "weeks"
                    [] model = "day" -> "days"

\* delete_structure_item(model, item_id, user_id)
delete_structure_item(model, item_id, u) ==
    LET tn == TableOf(model)
        req == [NoRequest EXCEPT !.op = "delete", !.model = model]
    IN /\ UNCHANGED seq
       /\ IF ~(item_id \in DOMAIN db[tn] /\ db[tn][item_id].user_id = u)
          THEN /\ db' = db
               /\ last' = Log([req EXCEPT !.result = "not_found"])
          ELSE /\ db' = CascadeDelete(db, tn, {item_id})
               /\ last' = Log([req EXCEPT !.result = "ok", !.user_id = u,
                                      !.old_parent_id = db[tn][item_id].parent,
                                      !.old_order_index = db[tn][item_id].order_index])

\* -------------------------------------------------- get_or_create_inbox
Min(S) == CHOOSE x \in S : \A y \in S : x <= y

\* SELECT id FROM t WHERE user_id = u AND parent = p AND title = title
Titled(t, u, p, title) ==
    {i \in DOMAIN t : t[i].user_id = u /\ t[i].parent = p /\ t[i].title = title}

\* get_or_create_inbox(user_id) on tables d and sequences s.  wk and dy are the rows
\* the two LIMIT 1 queries without ORDER BY return (0: no row, the row is created).
\* The value is [ok, db, seq, day_id]; a constraint violation raises before the
\* commit and leaves the tables as they were, the sequences advanced.
InboxResult(d, s, u, wk, dy) ==
    LET ph == Titled(d.phases, u, NULL, "Migrated Items")
        phase_id == IF ph = {} THEN s.phases + 1 ELSE Min(ph)
        phases1 == IF ph = {}
                   THEN Insert(d.phases, phase_id,
                               ContainerRow(u, NULL, "Migrated Items", INBOX_PHASE_ORDER))
                   ELSE d.phases
        s1 == IF ph = {} THEN [s EXCEPT !.phases = phase_id] ELSE s
        week_id == IF wk = 0 THEN s.weeks + 1 ELSE wk
        weeks1 == IF wk = 0
                  THEN Insert(d.weeks, week_id,
                              ContainerRow(u, phase_id, "Unsorted", INBOX_CHILD_ORDER))
                  ELSE d.weeks
        s2 == IF wk = 0 THEN [s1 EXCEPT !.weeks = week_id] ELSE s1
        day_id == IF dy = 0 THEN s.days + 1 ELSE dy
        days1 == IF dy = 0
                 THEN Insert(d.days, day_id,
                             ContainerRow(u, week_id, "Inbox", INBOX_CHILD_ORDER))
                 ELSE d.days
        s3 == IF dy = 0 THEN [s2 EXCEPT !.days = day_id] ELSE s2
    IN IF UniqueViolated(phases1) THEN [ok |-> FALSE, db |-> d, seq |-> s1, day_id |-> 0]
       ELSE IF UniqueViolated(weeks1) THEN [ok |-> FALSE, db |-> d, seq |-> s2, day_id |-> 0]
       ELSE IF UniqueViolated(days1) THEN [ok |-> FALSE, db |-> d, seq |-> s3, day_id |-> 0]
       ELSE [ok |-> TRUE,
             db |-> [d EXCEPT !.phases = phases1, !.weeks = weeks1, !.days = days1],
             seq |-> s3, day_id |-> day_id]

\* the rows the week query of get_or_create_inbox can return
InboxWeeks(d, s, u) ==
    LET ph == Titled(d.phases, u, NULL, "Migrated Items")
        c == IF ph = {} THEN {} ELSE Titled(d.weeks, u, Min(ph), "Unsorted")
    IN IF c = {} THEN {0} ELSE c

\* the rows the day query of get_or_create_inbox can return for week wk
InboxDays(d, u, wk) ==
    LET c == IF wk = 0 THEN {} ELSE Titled(d.days, u, wk, "Inbox")
    IN IF c = {} THEN {0} ELSE c

\* the sequences can hand out the ids the call needs
InboxFits(d, s, u, wk, dy) ==
    /\ Titled(d.phases, u, NULL, "Migrated Items") = {} => s.phases < MaxPhases
    /\ wk = 0 => s.weeks < MaxWeeks
    /\ dy = 0 => s.days < MaxDays

\* get_or_create_inbox(user_id), as its callers run it: it commits on its own
get_or_create_inbox(u) ==
    \E wk \in InboxWeeks(db, seq, u) : \E dy \in InboxDays(db, u, wk) :
        LET r == InboxResult(db, seq, u, wk, dy)
        IN /\ InboxFits(db, seq, u, wk, dy)
           /\ db' = r.db
           /\ seq' = r.seq
           /\ last' = Log([NoRequest EXCEPT !.op = "inbox", !.user_id = u,
                                        !.item_id = r.day_id,
                                        !.result = IF r.ok THEN "ok" ELSE "db_error"])

\* ------------------------------------------------------- reorder_structure
\* table_map: the table of a model that can be reordered
table_map(model) == CASE model = "week" -> "weeks" [] model = "day" -> "days"

\* parent_table_map: the table of the parents of a model
parent_table_map(model) == CASE model = "week" -> "phases" [] model = "day" -> "weeks"

\* largest value of an INTEGER column
IntMax == 2147483647

\* The UPDATE statements of the transaction.  Each is a record
\*   kind "evict": SET order_index = -9999 WHERE id = s.id AND user_id = s.user
\*   kind "set"  : SET parent = s.parent, order_index = s.order_index
\*                 WHERE id = s.id AND user_id = s.user
\*   kind "shift": SET order_index = order_index + s.delta
\*                 WHERE user_id = s.user AND parent = s.parent
\*                   AND s.lo <= order_index AND order_index <= s.hi
Evict(id, u) ==
    [kind |-> "evict", id |-> id, user |-> u, parent |-> 0, order_index |-> SENTINEL,
     lo |-> 0, hi |-> 0, delta |-> 0]
SetPosition(id, u, p, o) ==
    [kind |-> "set", id |-> id, user |-> u, parent |-> p, order_index |-> o,
     lo |-> 0, hi |-> 0, delta |-> 0]
Shift(u, p, lo, hi, delta) ==
    [kind |-> "shift", id |-> 0, user |-> u, parent |-> p, order_index |-> 0,
     lo |-> lo, hi |-> hi, delta |-> delta]

\* the rows the WHERE clause of statement s selects in table t
Rows(t, s) ==
    IF s.kind = "shift"
    THEN {i \in DOMAIN t : /\ t[i].user_id = s.user
                           /\ t[i].parent = s.parent
                           /\ s.lo <= t[i].order_index
                           /\ t[i].order_index <= s.hi}
    ELSE {i \in DOMAIN t : i = s.id /\ t[i].user_id = s.user}

\* table t after statement s
Exec(t, s) ==
    [i \in DOMAIN t |->
        IF i \notin Rows(t, s) THEN t[i]
        ELSE CASE s.kind = "shift" -> [t[i] EXCEPT !.order_index = @ + s.delta]
               [] s.kind = "evict" -> [t[i] EXCEPT !.order_index = s.order_index]
               [] s.kind = "set" -> [t[i] EXCEPT !.parent = s.parent,
                                                 !.order_index = s.order_index]]

\* The uniqueness constraints are not deferrable: the index is checked as each row
\* is written.  A statement whose result holds a duplicate always fails ...
MustFail(t, s) == UniqueViolated(Exec(t, s))

\* ... and a shift of several rows fails as well when a shifted row is written
\* before the row that still holds its new value; the order in which one UPDATE
\* visits the rows is not defined.
Transient(t, s) ==
    /\ s.kind = "shift"
    /\ \E a \in Rows(t, s), b \in Rows(t, s) :
          a # b /\ t[a].order_index + s.delta = t[b].order_index

MayFail(t, s) == MustFail(t, s) \/ Transient(t, s)

\* Steps 3 to 6 of reorder_structure for an item at (old_parent_id, old_order_index)
Statements(item_id, u, old_parent_id, old_order_index, new_parent_id, new_index) ==
    IF old_parent_id # new_parent_id
    THEN << Evict(item_id, u),
            Shift(u, new_parent_id, new_index, IntMax, 1),
            SetPosition(item_id, u, new_parent_id, new_index),
            Shift(u, old_parent_id, old_order_index + 1, IntMax, -1) >>
    ELSE IF new_index < old_order_index
    THEN << Evict(item_id, u),
            Shift(u, new_parent_id, new_index, old_order_index - 1, 1),
            SetPosition(item_id, u, new_parent_id, new_index) >>
    ELSE IF new_index > old_order_index
    THEN << Evict(item_id, u),
            Shift(u, old_parent_id, old_order_index + 1, new_index, -1),
            Shift(u, new_parent_id, new_index + 1, IntMax, 1),
            SetPosition(item_id, u, new_parent_id, new_index) >>
    ELSE << Evict(item_id, u),
            SetPosition(item_id, u, new_parent_id, new_index) >>

\* table t after the first k statements of ss
RECURSIVE RunTo(_, _, _)
RunTo(t, ss, k) == IF k = 0 THEN t ELSE Exec(RunTo(t, ss, k - 1), ss[k])

\* the statements at which the transaction can raise
FailPoints(t, ss) ==
    {k \in 1..Len(ss) : /\ \A j \in 1..(k - 1) : ~MustFail(RunTo(t, ss, j - 1), ss[j])
                        /\ MayFail(RunTo(t, ss, k - 1), ss[k])}

\* whether the transaction can reach its commit
CanCommit(t, ss) == \A k \in 1..Len(ss) : ~MustFail(RunTo(t, ss, k - 1), ss[k])

\* a failure path that keeps what the transaction wrote so far
RollbackKeeps(c, w) == w

\* conn.rollback(): the committed table c stands, the working table w is dropped
Rollback(c, w) == c

\* reorder_structure(model, item_id, new_parent_id, new_index, user_id) on the
\* committed tables d.  fail = 0: no statement raises; fail = k: statement k raises.
\* The value is [result, table]: what the call does and the table it leaves committed.
reorder_structure(d, model, item_id, new_parent_id, new_index, u, fail) ==
    IF model \notin {"week", "day"}
    THEN [result |-> "invalid_model", table |-> <<>>]
    ELSE LET t == d[table_map(model)]
             pt == d[parent_table_map(model)]
         IN IF ~(item_id \in DOMAIN t /\ t[item_id].user_id = u)
            THEN [result |-> "not_found", table |-> Rollback(t, t)]
            ELSE IF t[item_id].parent = new_parent_id /\ t[item_id].order_index = new_index
            THEN [result |-> "noop", table |-> Rollback(t, t)]
            ELSE IF ~(new_parent_id \in DOMAIN pt /\ pt[new_parent_id].user_id = u)
            THEN [result |-> "parent_not_found", table |-> Rollback(t, t)]
            ELSE LET ss == Statements(item_id, u, t[item_id].parent,
                                      t[item_id].order_index, new_parent_id, new_index)
                 IN IF fail = 0
                    THEN [result |-> "ok", table |-> RunTo(t, ss, Len(ss))]
                    ELSE [result |-> "db_error", table |-> Rollback(t, RunTo(t, ss, fail - 1))]

\* the values of fail the database allows for a call
Outcomes(d, model, item_id, new_parent_id, new_index, u) ==
    IF model \notin {"week", "day"} THEN {0}
    ELSE LET t == d[table_map(model)]
             pt == d[parent_table_map(model)]
         IN IF \/ ~(item_id \in DOMAIN t /\ t[item_id].user_id = u)
               \/ (t[item_id].parent = new_parent_id /\ t[item_id].order_index = new_index)
               \/ ~(new_parent_id \in DOMAIN pt /\ pt[new_parent_id].user_id = u)
            THEN {0}
            ELSE LET ss == Statements(item_id, u, t[item_id].parent,
                                      t[item_id].order_index, new_parent_id, new_index)
                 IN FailPoints(t, ss) \cup (IF CanCommit(t, ss) THEN {0} ELSE {})

\* a route that calls again, up to three times, after a database error
CallsRetried(result) == IF result = "db_error" THEN 3 ELSE 1

\* how many times api_reorder_structure calls reorder_structure for one request
Calls(result) == 1

\* every week and day order_index stays within the explored range
WithinRange(t) == \A i \in DOMAIN t : t[i].order_index <= MaxOrder

\* The new_index a client sends is a drop position among the children the new
\* parent shows: 0 .. the number of other rows under (user_id, new_parent_id)
ValidIndex(t, item_id, new_parent_id, new_index, u) ==
    new_index <= Cardinality({j \in DOMAIN t \ {item_id} :
                                 t[j].user_id = u /\ t[j].parent = new_parent_id})

\* PUT /api/structure/reorder
\* (last keeps the arguments of the moves that reached the UPDATE statements; a
\* request rejected before them leaves its kind of failure only)
api_reorder_structure(type, item_id, new_parent_id, new_index, u) ==
    LET req == [NoRequest EXCEPT !.op = "reorder"]
    IN /\ UNCHANGED seq
       /\ IF type \notin {"week", "day"}
          THEN /\ new_index = 0
               /\ db' = db
               /\ last' = Log([req EXCEPT !.result = "bad_request"])
          ELSE /\ ValidIndex(db[table_map(type)], item_id, new_parent_id, new_index, u)
               /\ \E fail \in Outcomes(db, type, item_id, new_parent_id, new_index, u) :
                  LET r == reorder_structure(db, type, item_id, new_parent_id, new_index, u, fail)
                      tn == table_map(type)
                  IN /\ WithinRange(r.table)
                     /\ db' = [db EXCEPT ![tn] = r.table]
                     /\ last' = Log(
                          IF r.result \in {"ok", "noop"}
                          THEN [req EXCEPT
                                  !.model = type, !.user_id = u, !.item_id = item_id,
                                  !.new_parent_id = new_parent_id,
                                  !.new_index = new_index,
                                  !.result = r.result,
                                  !.attempts = Calls(r.result),
                                  !.old_parent_id = db[tn][item_id].parent,
                                  !.old_order_index = db[tn][item_id].order_index]
                          ELSE [req EXCEPT !.result = r.result,
                                           !.attempts = Calls(r.result)])

\* ------------------------------------------------------ api_add_resource
\* the legacy columns (phase_index, week, day) of a resource of which one is NULL
NoLegacy == <<>>

\* a row of resources as an INSERT that names no date creates it.  pwd holds the
\* columns phase_index, week, day: <<phase_index, week, day>>, or NoLegacy when one
\* of them is NULL (no query of the program matches such a row by these columns)
ResourceRow(u, d, pwd, o) ==
    [user_id |-> u, day_id |-> d, pwd |-> pwd, sort_order |-> o,
     scheduled_date |-> NULL, original_date |-> NULL, status |-> "not_started"]

\* SELECT d.id FROM days d JOIN weeks w JOIN phases p WHERE p.user_id = u AND
\* p.order_index = pwd[1] AND w.order_index = pwd[2] AND d.order_index = pwd[3]
LegacyDays(d, u, pwd) ==
    IF pwd = NoLegacy THEN {}
    ELSE {i \in DOMAIN d.days :
            \E w \in DOMAIN d.weeks : \E p \in DOMAIN d.phases :
                /\ d.days[i].parent = w
                /\ d.weeks[w].parent = p
                /\ d.phases[p].user_id = u
                /\ d.phases[p].order_index = pwd[1]
                /\ d.weeks[w].order_index = pwd[2]
                /\ d.days[i].order_index = pwd[3]}

\* POST /api/resource.  title = FALSE: the request ends with 400 before any query
\* (the title is missing, or estimated_minutes is a number and the handler raises
\* NameError).  day_id = NULL: none given; the day is then the one the legacy
\* phase/week/day parameters pwd name (LIMIT 1 of the lookup), or the inbox day
\* when they name none.
api_add_resource(u, day_id, pwd, title) ==
    LET req == [NoRequest EXCEPT !.op = "add_resource", !.model = "resource"]
        found == IF day_id # NULL THEN {day_id}
                 ELSE IF LegacyDays(db, u, pwd) # {} THEN LegacyDays(db, u, pwd)
                 ELSE {NULL}
    IN /\ seq.resources < MaxResources
       /\ IF ~title
          THEN /\ UNCHANGED <<db, seq>>
               /\ last' = Log([req EXCEPT !.result = "bad_request"])
          ELSE \E wk \in InboxWeeks(db, seq, u) : \E dy \in InboxDays(db, u, wk) :
               \E target \in found :
               LET r == IF target = NULL
                        THEN InboxResult(db, seq, u, wk, dy)
                        ELSE [ok |-> TRUE, db |-> db, seq |-> seq, day_id |-> target]
                   id == r.seq.resources + 1
                   o == MaxSortOrder(r.db.resources, r.day_id, RESOURCE_MAX_DEFAULT) + 1
               IN /\ target = NULL => InboxFits(db, seq, u, wk, dy)
                  /\ IF ~r.ok
                     THEN /\ db' = r.db
                          /\ seq' = r.seq
                          /\ last' = Log([req EXCEPT !.result = "db_error"])
                     ELSE IF r.day_id \notin DOMAIN r.db.days
                     THEN /\ db' = r.db
                          /\ seq' = [r.seq EXCEPT !.resources = id]
                          /\ last' = Log([req EXCEPT !.result = "db_error"])
                     ELSE /\ db' = [r.db EXCEPT !.resources =
                                       Insert(@, id, ResourceRow(u, r.day_id, pwd, o))]
                          /\ seq' = [r.seq EXCEPT !.resources = id]
                          /\ last' = Log([req EXCEPT !.user_id = u, !.item_id = id,
                                                     !.new_parent_id = r.day_id,
                                                     !.order = o, !.result = "ok"])

\* ------------------------------------------------------- specifications
\* the requests that change the containers, one at a time
Next ==
    \/ \E u \in Users : create_phase(u) /\ UNCHANGED <<txn, hist>>
    \/ \E u \in Users, p \in 1..MaxPhases : create_week(u, p) /\ UNCHANGED <<txn, hist>>
    \/ \E u \in Users, w \in 1..MaxWeeks : create_day(u, w) /\ UNCHANGED <<txn, hist>>
    \/ \E u \in Users, m \in Models, i \in 1..MaxDays :
          delete_structure_item(m, i, u) /\ UNCHANGED <<txn, hist>>
    \/ \E u \in Users, m \in Models, i \in 1..MaxDays, p \in 1..MaxWeeks, n \in 0..MaxIndex :
          api_reorder_structure(m, i, p, n, u) /\ UNCHANGED <<txn, hist>>

Spec == Init /\ [][Next]_vars

\* the same requests and get_or_create_inbox
NextAll ==
    \/ \E u \in Users : create_phase(u) /\ UNCHANGED <<txn, hist>>
    \/ \E u \in Users, p \in 1..MaxPhases : create_week(u, p) /\ UNCHANGED <<txn, hist>>
    \/ \E u \in Users, w \in 1..MaxWeeks : create_day(u, w) /\ UNCHANGED <<txn, hist>>
    \/ \E u \in Users, m \in Models, i \in 1..MaxDays :
          delete_structure_item(m, i, u) /\ UNCHANGED <<txn, hist>>
    \/ \E u \in Users, m \in Models, i \in 1..MaxDays, p \in 1..MaxWeeks, n \in 0..MaxIndex :
          api_reorder_structure(m, i, p, n, u) /\ UNCHANGED <<txn, hist>>
    \/ \E u \in Users : get_or_create_inbox(u) /\ UNCHANGED <<txn, hist>>

SpecAll == InitAll /\ [][NextAll]_vars

\* the requests that append
NextAppend ==
    \/ \E u \in Users : create_phase(u) /\ UNCHANGED <<txn, hist>>
    \/ \E u \in Users, p \in 1..MaxPhases : create_week(u, p) /\ UNCHANGED <<txn, hist>>
    \/ \E u \in Users, w \in 1..MaxWeeks : create_day(u, w) /\ UNCHANGED <<txn, hist>>
    \/ \E u \in Users, d \in {NULL} \cup 1..MaxDays, pwd \in {NoLegacy, <<0, 0, 0>>},
          title \in BOOLEAN :
          api_add_resource(u, d, pwd, title) /\ UNCHANGED <<txn, hist>>

SpecAppend == Init /\ [][NextAppend]_vars

\* ---------------------------------- reorder_structure, statement by statement
\* Two connections run reorder_structure against one PostgreSQL server.  Each
\* transaction reads the snapshot taken by its first query, sees its own writes,
\* locks rows with FOR UPDATE and with every UPDATE, and fails when it locks a row
\* that a transaction committed after its snapshot has updated.  The unique indexes
\* are checked against the latest committed rows and wait for rows another open
\* transaction has written.  The server may also cancel a serializable transaction
\* that ran beside another one (its dependency tracking), which only adds aborts.

\* conn.autocommit
autocommitOn == TRUE

autocommit == FALSE

\* the arguments of the call connection p runs
ArgsOf(t) == [model |-> t.model, item_id |-> t.item_id, new_parent_id |-> t.new_parent_id,
              new_index |-> t.new_index, user_id |-> t.user_id]

StatementsOf(t) == Statements(t.item_id, t.user_id, t.old_parent_id, t.old_order_index,
                              t.new_parent_id, t.new_index)

\* row r of the table p works on is locked by the other connection
HeldByOther(p, r) ==
    LET o == txn[Other(p)]
    IN o.pc # "idle" /\ o.model = txn[p].model /\ r \in o.held

\* a read committed transaction would lock the latest version of the row instead
ConcurrentlyUpdatedNever(t, r) == FALSE

\* SERIALIZABLE: row r was updated by a transaction that committed after the
\* snapshot of t was taken ("could not serialize access due to concurrent update")
ConcurrentlyUpdated(t, r) == r \in t.stale

\* the table as the unique index sees it for connection p: the latest committed
\* rows and the rows p has written
TxnReal(p) ==
    LET t == txn[p]
        c == db[table_map(t.model)]
    IN [i \in DOMAIN c |-> IF i \in t.written THEN t.w[i] ELSE c[i]]

\* the same after statement s of p
TxnAfter(p, s) ==
    LET t == txn[p]
        c == db[table_map(t.model)]
    IN [i \in DOMAIN c |-> IF i \in t.written \cup Rows(t.w, s) THEN Exec(t.w, s)[i] ELSE c[i]]

Key(row) == <<row.user_id, row.parent, row.order_index>>

\* statement s of p writes a key that a row written by the other open transaction
\* holds or held: the index makes p wait for the end of that transaction
WaitsForIndex(p, s) ==
    LET t == txn[p]
        o == txn[Other(p)]
        c == db[table_map(t.model)]
    IN /\ o.pc # "idle"
       /\ o.model = t.model
       /\ \E r \in Rows(t.w, s) : \E q \in o.written \ {r} :
             \/ Key(Exec(t.w, s)[r]) = Key(o.w[q])
             \/ Key(Exec(t.w, s)[r]) = Key(c[q])

TxnMustFail(p, s) == UniqueViolated(TxnAfter(p, s))

TxnMayFail(p, s) == TxnMustFail(p, s) \/ Transient(txn[p].w, s)

\* the transaction after a lock query has locked what it can: the next lock query
\* with rows to lock, or the first UPDATE
AfterLock(t) ==
    IF t.pending # {} THEN t
    ELSE IF t.pc = "lock_old" /\ t.old_parent_id # t.new_parent_id
              /\ Siblings(t.w, t.user_id, t.new_parent_id) # {}
    THEN [t EXCEPT !.pc = "lock_new",
                   !.pending = Siblings(t.w, t.user_id, t.new_parent_id)]
    ELSE [t EXCEPT !.pc = "run", !.k = 1]

\* conn.rollback() and the error or the early return of the call
Abort(p, outcome) ==
    /\ txn' = [txn EXCEPT ![p] = Idle]
    /\ hist' = [hist EXCEPT !.outcome[p] = outcome]

\* connection p enters reorder_structure, once: the first query takes the snapshot
begin(p, model, item_id, new_parent_id, new_index, u) ==
    /\ txn[p].pc = "idle"
    /\ ~hist.ran[p]
    /\ ValidIndex(db[table_map(model)], item_id, new_parent_id, new_index, u)
    /\ txn' = [txn EXCEPT ![p] =
                 [Idle EXCEPT !.pc = "fetch", !.model = model, !.item_id = item_id,
                              !.new_parent_id = new_parent_id, !.new_index = new_index,
                              !.user_id = u, !.snap = db[table_map(model)],
                              !.w = db[table_map(model)]]]
    /\ hist' = [hist EXCEPT !.ran[p] = TRUE, !.concurrent = txn[Other(p)].pc # "idle"]
    /\ UNCHANGED <<db, seq, last>>

\* Step 1 and the checks that follow it: the item is locked, the no-op and the
\* new parent are checked, the first lock query on the siblings is sent
fetch(p) ==
    LET t == txn[p]
        i == t.item_id
        pt == db[parent_table_map(t.model)]
    IN /\ t.pc = "fetch"
       /\ UNCHANGED <<db, seq, last>>
       /\ IF ~(i \in DOMAIN t.w /\ t.w[i].user_id = t.user_id)
          THEN Abort(p, "not_found")
          ELSE /\ ~HeldByOther(p, i)
               /\ IF ConcurrentlyUpdated(t, i)
                  THEN Abort(p, "concurrent_update")
                  ELSE IF t.w[i].parent = t.new_parent_id /\ t.w[i].order_index = t.new_index
                  THEN Abort(p, "noop")
                  ELSE IF ~(t.new_parent_id \in DOMAIN pt /\ pt[t.new_parent_id].user_id = t.user_id)
                  THEN Abort(p, "parent_not_found")
                  ELSE /\ txn' = [txn EXCEPT ![p] = AfterLock(
                                    [t EXCEPT !.pc = "lock_old",
                                              !.held = {i},
                                              !.old_parent_id = t.w[i].parent,
                                              !.old_order_index = t.w[i].order_index,
                                              !.pending = Siblings(t.w, t.user_id, t.w[i].parent) \ {i}])]
                       /\ UNCHANGED hist

\* Step 2: a lock query locks one more of its rows
lock(p, r) ==
    LET t == txn[p]
    IN /\ t.pc \in {"lock_old", "lock_new"}
       /\ r \in t.pending
       /\ ~HeldByOther(p, r)
       /\ UNCHANGED <<db, seq, last>>
       /\ IF ConcurrentlyUpdated(t, r)
          THEN Abort(p, "concurrent_update")
          ELSE /\ txn' = [txn EXCEPT ![p] = AfterLock([t EXCEPT !.held = @ \cup {r},
                                                                !.pending = @ \ {r}])]
               /\ UNCHANGED hist

\* Steps 3 to 6: the next UPDATE of the transaction
run(p) ==
    LET t == txn[p]
        tn == table_map(t.model)
        ss == StatementsOf(t)
        s == ss[t.k]
    IN /\ t.pc = "run"
       /\ ~WaitsForIndex(p, s)
       /\ UNCHANGED <<seq, last>>
       /\ \/ /\ TxnMayFail(p, s)
             /\ Abort(p, "db_error")
             /\ db' = db
          \/ /\ ~TxnMustFail(p, s)
             /\ WithinRange(Exec(t.w, s))
             /\ txn' = [txn EXCEPT ![p] =
                          [t EXCEPT !.w = Exec(t.w, s),
                                    !.written = @ \cup Rows(t.w, s),
                                    !.k = @ + 1,
                                    !.pc = IF t.k = Len(ss) THEN "commit" ELSE "run"]]
             /\ db' = IF autocommit THEN [db EXCEPT ![tn] = TxnAfter(p, s)] ELSE db
             /\ UNCHANGED hist

\* conn.commit()
commit(p) ==
    LET t == txn[p]
    IN /\ t.pc = "commit"
       /\ UNCHANGED <<seq, last>>
       /\ \/ /\ db' = [db EXCEPT ![table_map(t.model)] = TxnReal(p)]
             /\ txn' = [q \in Procs |->
                          IF q = p THEN Idle
                          ELSE IF txn[q].pc # "idle" /\ txn[q].model = t.model
                          THEN [txn[q] EXCEPT !.stale = @ \cup t.written]
                          ELSE txn[q]]
             /\ hist' = [hist EXCEPT !.done[p] = ArgsOf(t), !.outcome[p] = "ok"]
          \/ /\ hist.concurrent
             /\ Abort(p, "serialization_failure")
             /\ db' = db

\* connection p cannot go on before the other one ends its transaction
Blocked(p) ==
    LET t == txn[p]
    IN \/ /\ t.pc = "fetch"
          /\ t.item_id \in DOMAIN t.w
          /\ t.w[t.item_id].user_id = t.user_id
          /\ HeldByOther(p, t.item_id)
       \/ /\ t.pc \in {"lock_old", "lock_new"}
          /\ \A r \in t.pending : HeldByOther(p, r)
       \/ /\ t.pc = "run"
          /\ WaitsForIndex(p, StatementsOf(t)[t.k])

\* the server finds the two transactions waiting for each other and cancels one
deadlock(p) ==
    /\ \A q \in Procs : Blocked(q)
    /\ Abort(p, "deadlock")
    /\ UNCHANGED <<db, seq, last>>

\* a hierarchy one user has built with create_phase, create_week and create_day:
\* day i was created in week f[i]
Hierarchy(u, f) ==
    [phases |-> <<ContainerRow(u, NULL, "T", 0)>>,
     weeks |-> [i \in 1..MaxWeeks |-> ContainerRow(u, 1, "T", i - 1)],
     days |-> [i \in 1..MaxDays |->
                 ContainerRow(u, f[i], "T", Cardinality({j \in 1..(i - 1) : f[j] = f[i]}))],
     resources |-> <<>>,
     blocked_days |-> <<>>]

Built == {Hierarchy(Min(Users), f) : f \in [1..MaxDays -> 1..MaxWeeks]}

\* the hierarchies one committed move makes of h
Moved(h) ==
    {[h EXCEPT ![table_map(x[1])] =
         reorder_structure(h, x[1], x[2], x[3], x[4], Min(Users), 0).table] :
        x \in {y \in {"week", "day"} \X (1..MaxDays) \X (1..MaxWeeks) \X (0..MaxIndex) :
                 /\ y[2] \in DOMAIN h[table_map(y[1])]
                 /\ ValidIndex(h[table_map(y[1])], y[2], y[3], y[4], Min(Users))
                 /\ 0 \in Outcomes(h, y[1], y[2], y[3], y[4], Min(Users))
                 /\ reorder_structure(h, y[1], y[2], y[3], y[4], Min(Users), 0).result = "ok"
                 /\ WithinRange(reorder_structure(h, y[1], y[2], y[3], y[4],
                                                  Min(Users), 0).table)}}

\* the two connections start on a hierarchy as built, or as one move left it
InitTxn ==
    /\ db \in Built \cup UNION {Moved(h) : h \in Built}
    /\ seq = [phases |-> 1, weeks |-> MaxWeeks, days |-> MaxDays, resources |-> 0]
    /\ last = Untraced
    /\ txn = [p \in Procs |-> Idle]
    /\ hist = [NoHist EXCEPT !.base = db]

NextTxn ==
    \/ \E p \in Procs, m \in {"week", "day"}, i \in 1..MaxDays, np \in 1..MaxWeeks,
          n \in 0..MaxIndex, u \in Users : begin(p, m, i, np, n, u)
    \/ \E p \in Procs : fetch(p)
    \/ \E p \in Procs, r \in 1..MaxDays : lock(p, r)
    \/ \E p \in Procs : run(p)
    \/ \E p \in Procs : commit(p)
    \/ \E p \in Procs : deadlock(p)

SpecTxn == InitTxn /\ [][NextTxn]_vars

\* ----------------------------------------------- the order of the resources
\* the curriculum one user has built: a phase, week 1 with every day but the last,
\* and the last day in the last week
Curriculum == Hierarchy(Min(Users), [i \in 1..MaxDays |-> IF i < MaxDays THEN 1 ELSE MaxWeeks])

\* <<phase order_index, week order_index, day order_index>> of day i
PositionOf(d, i) ==
    <<d.phases[d.weeks[d.days[i].parent].parent].order_index,
      d.weeks[d.days[i].parent].order_index,
      d.days[i].order_index>>

\* the record a resource request leaves in last
ResourceRequest(op, resource_id, new_position, pwd, result) ==
    [op |-> op, model |-> "resource", item_id |-> resource_id, new_index |-> new_position,
     pwd |-> pwd, result |-> result]

\* upsert_resource_from_curriculum(resource_data, user_id, day_id).  existing is the
\* resource of the user that carries the title of resource_data (NULL: none),
\* user_modified its flag, pwd the phase_index, week, day of resource_data.
upsert_resource_from_curriculum(u, existing, user_modified, day_id, pwd) ==
    IF existing # NULL
    THEN /\ existing \in DOMAIN db.resources
         /\ db.resources[existing].user_id = u
         /\ UNCHANGED seq
         /\ IF day_id # NULL /\ day_id \notin DOMAIN db.days
            THEN /\ UNCHANGED db
                 /\ last' = Log(ResourceRequest("upsert", existing, 0, pwd, "db_error"))
            ELSE /\ db' = [db EXCEPT !.resources[existing] =
                              [@ EXCEPT !.day_id = IF day_id # NULL THEN day_id ELSE @,
                                        !.pwd = IF user_modified /\ pwd = NoLegacy
                                                THEN @ ELSE pwd]]
                 /\ last' = Log(ResourceRequest("upsert", existing, 0, pwd, "updated"))
    ELSE /\ ~user_modified
         /\ seq.resources < MaxResources
         /\ \E wk \in InboxWeeks(db, seq, u) : \E dy \in InboxDays(db, u, wk) :
            LET r == IF day_id = NULL
                     THEN InboxResult(db, seq, u, wk, dy)
                     ELSE [ok |-> TRUE, db |-> db, seq |-> seq, day_id |-> day_id]
                id == r.seq.resources + 1
            IN /\ day_id = NULL => InboxFits(db, seq, u, wk, dy)
               /\ IF ~r.ok
                  THEN /\ db' = r.db
                       /\ seq' = r.seq
                       /\ last' = Log(ResourceRequest("upsert", 0, 0, pwd, "db_error"))
                  ELSE IF r.day_id \notin DOMAIN r.db.days
                  THEN /\ db' = r.db
                       /\ seq' = [r.seq EXCEPT !.resources = id]
                       /\ last' = Log(ResourceRequest("upsert", 0, 0, pwd, "db_error"))
                  ELSE /\ db' = [r.db EXCEPT !.resources =
                                    Insert(@, id, ResourceRow(u, r.day_id, pwd,
                                                              SORT_ORDER_DEFAULT))]
                       /\ seq' = [r.seq EXCEPT !.resources = id]
                       /\ last' = Log(ResourceRequest("upsert", id, 0, pwd, "created"))

\* SELECT id FROM resources WHERE phase_index = pwd[1] AND week = pwd[2] AND day = pwd[3]
ResourcesOf(t, pwd) == {i \in DOMAIN t : pwd # NoLegacy /\ t[i].pwd = pwd}

\* index of r in S under ORDER BY sort_order, id
Rank(t, S, r) ==
    Cardinality({i \in S : \/ t[i].sort_order < t[r].sort_order
                           \/ t[i].sort_order = t[r].sort_order /\ i < r})

\* the sort_order the moved resource gets from reorder_resource
MovedOrder(new_position) == new_position * POSITION_STEP + MOVED_OFFSET

\* POST /reorder.  complete = FALSE: one of resource_id, new_position, day, week,
\* phase is missing or not a number (400).  Neither the user nor the day of the
\* resource is looked at.
reorder_resource(resource_id, new_position, pwd, complete) ==
    LET t == db.resources
        S == ResourcesOf(t, pwd)
        renumbered == [i \in DOMAIN t |->
                         IF i \in S
                         THEN [t[i] EXCEPT !.sort_order = Rank(t, S, i) * POSITION_STEP]
                         ELSE t[i]]
        moved == [i \in DOMAIN t |->
                    IF i = resource_id
                    THEN [renumbered[i] EXCEPT !.sort_order = MovedOrder(new_position)]
                    ELSE renumbered[i]]
    IN /\ UNCHANGED seq
       /\ IF ~complete
          THEN /\ UNCHANGED db
               /\ last' = Log(ResourceRequest("reorder_resource", resource_id, new_position,
                                              pwd, "bad_request"))
          ELSE /\ db' = [db EXCEPT !.resources = moved]
               /\ last' = Log(ResourceRequest("reorder_resource", resource_id, new_position,
                                              pwd, "ok"))

\* the UPDATE of api_reorder_resource that makes room: + 1 on the resources of the
\* day in new_position .. old_position - 1, or - 1 on those in
\* old_position + 1 .. new_position
MakeRoom(t, S, old_position, new_position) ==
    [i \in DOMAIN t |->
        IF i \in S /\ new_position < old_position
                   /\ t[i].sort_order >= new_position /\ t[i].sort_order < old_position
        THEN [t[i] EXCEPT !.sort_order = @ + 1]
        ELSE IF i \in S /\ ~(new_position < old_position)
                        /\ t[i].sort_order > old_position /\ t[i].sort_order <= new_position
        THEN [t[i] EXCEPT !.sort_order = @ - 1]
        ELSE t[i]]

\* POST /api/resource/<resource_id>/reorder; the old position is the sort_order
\* of the resource
api_reorder_resource(resource_id, new_position, pwd) ==
    /\ UNCHANGED seq
    /\ IF resource_id \notin DOMAIN db.resources
       THEN /\ UNCHANGED db
            /\ last' = Log(ResourceRequest("api_reorder_resource", resource_id, new_position,
                                           pwd, "not_found"))
       ELSE LET t == db.resources
                old_position == t[resource_id].sort_order
                shifted == MakeRoom(t, ResourcesOf(t, pwd), old_position, new_position)
            IN /\ db' = [db EXCEPT !.resources =
                            [shifted EXCEPT ![resource_id].sort_order = new_position]]
               /\ last' = Log(ResourceRequest("api_reorder_resource", resource_id,
                                              new_position, pwd, "ok"))

\* the positions of the days of the curriculum
Groups == {PositionOf(Curriculum, i) : i \in DOMAIN Curriculum.days}

\* the owner of the curriculum creates, imports and reorders resources in its days
InitOrder ==
    /\ db = Curriculum
    /\ seq = [phases |-> 1, weeks |-> MaxWeeks, days |-> MaxDays, resources |-> 0]
    /\ last = NoRequest
    /\ NoTxn

NextOrder ==
    \/ \E d \in 1..MaxDays, given \in BOOLEAN :
          /\ seq.resources < MaxOrdered
          /\ api_add_resource(Min(Users), IF given THEN d ELSE NULL,
                              PositionOf(db, d), TRUE)
          /\ UNCHANGED <<txn, hist>>
    \/ \E e \in {NULL} \cup 1..MaxOrdered, m \in BOOLEAN, d \in 1..MaxDays :
          /\ e = NULL => seq.resources < MaxOrdered
          /\ upsert_resource_from_curriculum(Min(Users), e, m, d, PositionOf(db, d))
          /\ UNCHANGED <<txn, hist>>
    \/ \E r \in 1..MaxOrdered, n \in 0..MaxPosition, g \in Groups, c \in BOOLEAN :
          reorder_resource(r, n, g, c) /\ UNCHANGED <<txn, hist>>
    \/ \E r \in 1..MaxOrdered, n \in 0..MaxPosition, g \in Groups :
          api_reorder_resource(r, n, g) /\ UNCHANGED <<txn, hist>>

SpecOrder == InitOrder /\ [][NextOrder]_vars

\* ------------------------------------------------------------ the schedule
\* A calendar date is a day number.  The program handles it in two Python forms:
\* the str that strftime("%Y-%m-%d") makes of it, and the datetime.date that the
\* driver returns for a DATE column (database.py registers no other conversion).
strftime(date) == [type |-> "str", value |-> date]

DateColumn(date) == [type |-> "date", value |-> date]

\* a < b in ORDER BY phase_index, week, day
Precedes(a, b) ==
    \/ a[1] < b[1]
    \/ a[1] = b[1] /\ a[2] < b[2]
    \/ a[1] = b[1] /\ a[2] = b[2] /\ a[3] < b[3]

First(days) == CHOOSE a \in days : \A b \in days \ {a} : Precedes(a, b)

\* SELECT DISTINCT phase_index, week, day FROM resources WHERE none of them IS NULL
CurriculumDays(t) == {t[i].pwd : i \in DOMAIN t} \ {NoLegacy}

\* set(row['date'] for row in cur.fetchall()) of SELECT date FROM blocked_days
\* [WHERE date >= from_date]
BlockedFrom(b, from_date) == {DateColumn(d) : d \in {x \in DOMAIN b : x >= from_date}}

\* while current_date.strftime("%Y-%m-%d") in blocked: current_date += 1 day
RECURSIVE SkipBlocked(_, _)
SkipBlocked(current_date, blocked) ==
    IF strftime(current_date) \in blocked
    THEN SkipBlocked(current_date + 1, blocked)
    ELSE current_date

\* COALESCE(a, b) of SQL
COALESCESecond(a, b) == b

COALESCE(a, b) == IF a # NULL THEN a ELSE b

\* the loop over curriculum_days of both functions: each day in order gets the
\* date under the cursor; project = TRUE is the UPDATE of calculate_schedule, which
\* also sets original_date, FALSE the UPDATE of recalculate_schedule_from
RECURSIVE Walk(_, _, _, _, _)
Walk(t, days, current_date, blocked, project) ==
    IF days = {} THEN t
    ELSE LET g == First(days)
             date == SkipBlocked(current_date, blocked)
             updated == [i \in DOMAIN t |->
                           IF t[i].pwd = g
                           THEN [t[i] EXCEPT
                                   !.scheduled_date = date,
                                   !.original_date = IF project THEN COALESCE(@, date)
                                                     ELSE @]
                           ELSE t[i]]
         IN Walk(updated, days \ {g}, date + 1, blocked, project)

\* the resources table calculate_schedule(start_date) commits
Projected(d, start_date) ==
    Walk(d.resources, CurriculumDays(d.resources), start_date,
         BlockedFrom(d.blocked_days, 1), TRUE)

\* the minima over all resources, whatever their scheduled_date
AffectedUnfiltered(t, from_date) ==
    LET S == CurriculumDays(t)
    IN IF S = {} THEN NoLegacy
       ELSE <<Min({g[1] : g \in S}), Min({g[2] : g \in S}), Min({g[3] : g \in S})>>

\* SELECT MIN(phase_index), MIN(week), MIN(day) FROM resources
\* WHERE scheduled_date >= from_date: three separate minima
Affected(t, from_date) ==
    LET S == {t[i].pwd : i \in {j \in DOMAIN t : /\ t[j].scheduled_date # NULL
                                                 /\ t[j].scheduled_date >= from_date
                                                 /\ t[j].pwd # NoLegacy}}
    IN IF S = {} THEN NoLegacy
       ELSE <<Min({g[1] : g \in S}), Min({g[2] : g \in S}), Min({g[3] : g \in S})>>

\* the curriculum days from min (phase, week, day) forward
DaysFrom(t, min) == {g \in CurriculumDays(t) : g = min \/ Precedes(min, g)}

\* the resources table recalculate_schedule_from(from_date) commits
Recalculated(d, from_date) ==
    LET min == Affected(d.resources, from_date)
    IN IF min = NoLegacy THEN d.resources
       ELSE Walk(d.resources, DaysFrom(d.resources, min), from_date,
                 BlockedFrom(d.blocked_days, from_date), FALSE)

\* no resource is scheduled after the last date explored
InCalendar(t) == \A i \in DOMAIN t : t[i].scheduled_date <= MaxDate

\* no handler is between its commit and its return
Returned == [pc |-> "idle", from_date |-> NULL, user_id |-> NULL]

\* calculate_schedule(start_date), as update_start_date and the dashboard call it
calculate_schedule(start_date) ==
    /\ txn.pc = "idle"
    /\ InCalendar(Projected(db, start_date))
    /\ db' = [db EXCEPT !.resources = Projected(db, start_date)]
    /\ UNCHANGED <<seq, last, txn, hist>>

\* POST /schedule/block up to its commit; date = NULL: no date in the form, the
\* request ends there.  ON CONFLICT (date) keeps the row of a date already blocked.
block_day(u, date) ==
    /\ txn.pc = "idle"
    /\ IF date = NULL
       THEN UNCHANGED <<db, txn>>
       ELSE /\ db' = [db EXCEPT !.blocked_days =
                         IF date \in DOMAIN @ THEN @ ELSE Insert(@, date, [user_id |-> u])]
            /\ txn' = [pc |-> "recalculate", from_date |-> date, user_id |-> u]
    /\ UNCHANGED <<seq, last, hist>>

\* POST /schedule/unblock by user u up to its commit: the DELETE names no user
unblock_day(u, date) ==
    /\ txn.pc = "idle"
    /\ IF date = NULL
       THEN UNCHANGED <<db, txn>>
       ELSE /\ db' = [db EXCEPT !.blocked_days = Delete(@, {date})]
            /\ txn' = [pc |-> "recalculate", from_date |-> date, user_id |-> u]
    /\ UNCHANGED <<seq, last, hist>>

\* the call of recalculate_schedule_from that ends block_day and unblock_day
recalculate_schedule_from ==
    /\ txn.pc = "recalculate"
    /\ db' = [db EXCEPT !.resources = Recalculated(db, txn.from_date)]
    /\ txn' = Returned
    /\ UNCHANGED <<seq, last, hist>>

\* the owner of the curriculum adds resources by the position of their day, sets
\* the start date and blocks and unblocks dates;
\* the requests are served one at a time, and the state between the commit of
\* block_day / unblock_day and the recalculation is a state of its own
InitSched ==
    /\ db = Curriculum
    /\ seq = [phases |-> 1, weeks |-> MaxWeeks, days |-> MaxDays, resources |-> 0]
    /\ last = Untraced
    /\ txn = Returned
    /\ hist = NoHist

NextSched ==
    \/ \E d \in 1..MaxDays :
          /\ txn.pc = "idle"
          /\ api_add_resource(Min(Users), NULL, PositionOf(db, d), TRUE)
          /\ UNCHANGED <<txn, hist>>
    \/ \E start_date \in 1..MaxDate : calculate_schedule(start_date)
    \/ \E date \in {NULL} \cup 1..MaxDate : block_day(Min(Users), date)
    \/ \E date \in {NULL} \cup 1..MaxDate : unblock_day(Min(Users), date)
    \/ recalculate_schedule_from

SpecSched == InitSched /\ [][NextSched]_vars

\* the curriculum with one imported resource in each day, its phase_index, week,
\* day columns being the position of the day
Imported ==
    [Curriculum EXCEPT !.resources =
        [i \in 1..MaxDays |-> ResourceRow(Min(Users), i, PositionOf(Curriculum, i),
                                          SORT_ORDER_DEFAULT)]]

\* the owner moves weeks and days of the imported curriculum and sets the start date
InitMoved ==
    /\ db = Imported
    /\ seq = [phases |-> 1, weeks |-> MaxWeeks, days |-> MaxDays, resources |-> MaxDays]
    /\ last = Untraced
    /\ txn = Returned
    /\ hist = NoHist

NextMoved ==
    \/ \E m \in {"week", "day"}, i \in 1..MaxDays, p \in 1..MaxWeeks, n \in 0..MaxIndex :
          api_reorder_structure(m, i, p, n, Min(Users)) /\ UNCHANGED <<txn, hist>>
    \/ \E start_date \in 1..MaxDate : calculate_schedule(start_date)

SpecMoved == InitMoved /\ [][NextMoved]_vars

\* the record update_start_date leaves in last: the value of settings.start_date
StartDate(date) == [op |-> "update_start_date", start_date |-> date]

\* POST /settings/start-date: set_start_date(date_str), then
\* calculate_schedule(date_str); date_str = NULL: no date in the form
update_start_date(date_str) ==
    /\ txn.pc = "idle"
    /\ IF date_str = NULL
       THEN UNCHANGED <<db, last>>
       ELSE /\ db' = [db EXCEPT !.resources = Projected(db, date_str)]
            /\ last' = StartDate(date_str)
    /\ UNCHANGED <<seq, txn, hist>>

\* the owner of the imported curriculum sets the start date and blocks and
\* unblocks dates
InitStart ==
    /\ db = Imported
    /\ seq = [phases |-> 1, weeks |-> MaxWeeks, days |-> MaxDays, resources |-> MaxDays]
    /\ last = StartDate(NULL)
    /\ txn = Returned
    /\ hist = NoHist

NextStart ==
    \/ \E date_str \in {NULL} \cup 1..MaxDate : update_start_date(date_str)
    \/ \E date \in {NULL} \cup 1..MaxDate : block_day(Min(Users), date)
    \/ \E date \in {NULL} \cup 1..MaxDate : unblock_day(Min(Users), date)
    \/ recalculate_schedule_from

SpecStart == InitStart /\ [][NextStart]_vars

\* two owners, each with a phase, a week, a day and one imported resource in it
TwoOwners ==
    [phases |-> [u \in Users |-> ContainerRow(u, NULL, "T", 0)],
     weeks |-> [u \in Users |-> ContainerRow(u, u, "T", 0)],
     days |-> [u \in Users |-> ContainerRow(u, u, "T", 0)],
     resources |-> [u \in Users |-> ResourceRow(u, u, <<0, 0, 0>>, SORT_ORDER_DEFAULT)],
     blocked_days |-> <<>>]

\* both owners set start dates and block and unblock dates
InitOwners ==
    /\ db = TwoOwners
    /\ seq = [phases |-> Cardinality(Users), weeks |-> Cardinality(Users),
              days |-> Cardinality(Users), resources |-> Cardinality(Users)]
    /\ last = Untraced
    /\ txn = Returned
    /\ hist = NoHist

NextOwners ==
    \/ \E start_date \in 1..MaxDate : calculate_schedule(start_date)
    \/ \E u \in Users, date \in {NULL} \cup 1..MaxDate : block_day(u, date)
    \/ \E u \in Users, date \in {NULL} \cup 1..MaxDate : unblock_day(u, date)
    \/ recalculate_schedule_from

SpecOwners == InitOwners /\ [][NextOwners]_vars

\* ---- the two walks statement by statement, inside their transaction
\* one UPDATE of the loop: the resources of curriculum day g get the date
Assign(t, g, date, project) ==
    [i \in DOMAIN t |->
       IF t[i].pwd = g
       THEN [t[i] EXCEPT !.scheduled_date = date,
                         !.original_date = IF project THEN COALESCE(@, date) ELSE @]
       ELSE t[i]]

\* a connection that commits every statement as it is executed
Autocommitted(d, work) == [d EXCEPT !.resources = work]

\* what the other connections find in the tables after a statement of a
\* connection that has not committed: psycopg2.connect leaves autocommit off
InTransaction(d, work) == d

\* the function has read curriculum_days and blocked and stands before its loop;
\* work is the resources table as its own connection sees it
Running(project, date, days, blocked, t) ==
    [pc |-> "walk", project |-> project, from_date |-> date, user_id |-> NULL,
     curriculum_days |-> days, current_date |-> date, blocked |-> blocked,
     work |-> t, before |-> t]

\* calculate_schedule(start_date) up to its loop
begin_calculate_schedule(start_date) ==
    /\ txn.pc = "idle"
    /\ txn' = IF CurriculumDays(db.resources) = {} THEN Returned
              ELSE Running(TRUE, start_date, CurriculumDays(db.resources),
                           BlockedFrom(db.blocked_days, 1), db.resources)
    /\ UNCHANGED <<db, seq, last, hist>>

\* recalculate_schedule_from(from_date) up to its loop, called by block_day and
\* unblock_day after their commit
begin_recalculate_schedule_from ==
    /\ txn.pc = "recalculate"
    /\ LET min == Affected(db.resources, txn.from_date)
       IN txn' = IF min = NoLegacy THEN Returned
                 ELSE Running(FALSE, txn.from_date, DaysFrom(db.resources, min),
                              BlockedFrom(db.blocked_days, txn.from_date), db.resources)
    /\ UNCHANGED <<db, seq, last, hist>>

\* one turn of the loop over curriculum_days
execute_update ==
    /\ txn.pc = "walk"
    /\ txn.curriculum_days # {}
    /\ LET g == First(txn.curriculum_days)
           date == SkipBlocked(txn.current_date, txn.blocked)
       IN txn' = [txn EXCEPT !.work = Assign(@, g, date, txn.project),
                             !.curriculum_days = @ \ {g},
                             !.current_date = date + 1]
    /\ db' = InTransaction(db, txn'.work)
    /\ UNCHANGED <<seq, last, hist>>

\* conn.commit() after the loop
commit_schedule ==
    /\ txn.pc = "walk"
    /\ txn.curriculum_days = {}
    /\ db' = [db EXCEPT !.resources = txn.work]
    /\ txn' = Returned
    /\ UNCHANGED <<seq, last, hist>>

\* the request ends on an exception before conn.commit(): the teardown closes the
\* connection and the server rolls its transaction back
close_db ==
    /\ txn.pc = "walk"
    /\ txn' = Returned
    /\ UNCHANGED <<db, seq, last, hist>>

InitWalk ==
    /\ db = Imported
    /\ seq = [phases |-> MaxPhases, weeks |-> MaxWeeks, days |-> MaxDays,
              resources |-> MaxDays]
    /\ last = Untraced
    /\ txn = Returned
    /\ hist = NoHist

NextWalk ==
    \/ \E start_date \in 1..MaxDate : begin_calculate_schedule(start_date)
    \/ \E date \in {NULL} \cup 1..MaxDate : block_day(Min(Users), date)
    \/ \E date \in {NULL} \cup 1..MaxDate : unblock_day(Min(Users), date)
    \/ begin_recalculate_schedule_from
    \/ execute_update
    \/ commit_schedule
    \/ close_db

SpecWalk == InitWalk /\ [][NextWalk]_vars

\* ---- the status of a resource
\* the statuses of the cycle: not_started, in_progress, complete
CYCLE_LENGTH == 3

VALID_STATUSES == {"not_started", "in_progress", "complete", "skipped"}

\* a cycle in which complete is followed by skipped
STATUS_CYCLE_SKIPPING ==
    [not_started |-> "in_progress", in_progress |-> "complete",
     complete |-> "skipped", skipped |-> "not_started"]

STATUS_CYCLE ==
    [not_started |-> "in_progress", in_progress |-> "complete",
     complete |-> "not_started", skipped |-> "not_started"]

\* the status column holding NULL
NoStatus == "NULL"

\* new_status of toggle_resource:
\* STATUS_CYCLE.get(resource["status"] or "not_started", "in_progress")
Toggled(status) ==
    LET current_status == IF status = NoStatus THEN "not_started" ELSE status
    IN IF current_status \in DOMAIN STATUS_CYCLE THEN STATUS_CYCLE[current_status]
       ELSE "in_progress"

\* an UPDATE that also clears the date of the rows it changes
SetStatusUnscheduled(t, ids, status) ==
    [i \in DOMAIN t |-> IF i \in ids THEN [t[i] EXCEPT !.status = status,
                                                       !.scheduled_date = NULL]
                        ELSE t[i]]

\* UPDATE resources SET status = ..., is_completed = ..., completed_at = ...
\* over the rows ids its WHERE clause matches
SetStatus(t, ids, status) ==
    [i \in DOMAIN t |-> IF i \in ids THEN [t[i] EXCEPT !.status = status] ELSE t[i]]

\* no toggle_resource since the last other change of a status
NoToggles == [resource_id |-> NULL, trail |-> <<>>]

\* POST /toggle-resource/<resource_id> by user u.  hist keeps the statuses the
\* resource went through in up to CYCLE_LENGTH toggles in a row, with no other request on
\* statuses between them.
toggle_resource(u, resource_id) ==
    /\ txn.pc = "idle"
    /\ IF \/ resource_id \notin DOMAIN db.resources
          \/ db.resources[resource_id].user_id # u
       THEN UNCHANGED <<db, hist>>
       ELSE LET status == db.resources[resource_id].status
                new_status == Toggled(status)
            IN /\ db' = [db EXCEPT !.resources = SetStatus(@, {resource_id}, new_status)]
               /\ hist' = IF /\ hist.resource_id = resource_id
                             /\ Len(hist.trail) <= CYCLE_LENGTH
                          THEN [hist EXCEPT !.trail = Append(@, new_status)]
                          ELSE [resource_id |-> resource_id,
                                trail |-> <<status, new_status>>]
    /\ UNCHANGED <<seq, last, txn>>

\* POST /bulk with the action and the ids of the form; the UPDATEs and the DELETE
\* name no user
bulk_action(action, ids) ==
    /\ txn.pc = "idle"
    /\ IF action \notin {"complete", "progress", "skip", "delete"} \/ ids = {}
       THEN UNCHANGED <<db, hist>>
       ELSE /\ db' = [db EXCEPT !.resources =
                         CASE action = "complete" -> SetStatus(@, ids, "complete")
                           [] action = "progress" -> SetStatus(@, ids, "in_progress")
                           [] action = "skip" -> SetStatus(@, ids, "skipped")
                           [] action = "delete" -> Delete(@, ids)]
            /\ hist' = NoToggles
    /\ UNCHANGED <<seq, last, txn>>

\* POST /api/resource/<resource_id>/status with {"status": new_status}
update_resource_status(resource_id, new_status) ==
    /\ txn.pc = "idle"
    /\ IF new_status \notin VALID_STATUSES
       THEN UNCHANGED <<db, hist>>
       ELSE /\ db' = [db EXCEPT !.resources = SetStatus(@, {resource_id}, new_status)]
            /\ hist' = NoToggles
    /\ UNCHANGED <<seq, last, txn>>

\* POST /reset: UPDATE resources SET status = 'not_started', with no WHERE clause
reset ==
    /\ txn.pc = "idle"
    /\ db' = [db EXCEPT !.resources = SetStatus(@, DOMAIN @, "not_started")]
    /\ hist' = NoToggles
    /\ UNCHANGED <<seq, last, txn>>

\* the users work through the imported curriculum; the start date is set
InitStatus ==
    /\ db = Imported
    /\ seq = [phases |-> MaxPhases, weeks |-> MaxWeeks, days |-> MaxDays,
              resources |-> MaxDays]
    /\ last = Untraced
    /\ txn = Returned
    /\ hist = NoToggles

NextStatus ==
    \/ \E u \in Users, resource_id \in 1..MaxResources : toggle_resource(u, resource_id)
    \/ \E action \in {"complete", "progress", "skip", "delete", "archive"},
          ids \in SUBSET (1..MaxResources) : bulk_action(action, ids)
    \/ \E resource_id \in 1..MaxResources, new_status \in VALID_STATUSES \cup {"done"} :
          update_resource_status(resource_id, new_status)
    \/ reset
    \/ \E start_date \in 1..MaxDate : calculate_schedule(start_date)

SpecStatus == InitStatus /\ [][NextStatus]_vars

\* ---- time logs and streaks
\* a function returns v / ends on the exception error
Value(v) == [ok |-> TRUE, value |-> v, error |-> "none"]

Raised(error) == [ok |-> FALSE, value |-> NULL, error |-> error]

\* datetime.strptime(x, "%Y-%m-%d").date(): the argument must be a str
strptime(x) == IF x.type = "str" THEN Value(x.value) ELSE Raised("TypeError")

\* SELECT DISTINCT date FROM time_logs WHERE user_id = u
LoggedDates(t, u) == {t[i].date : i \in {j \in DOMAIN t : t[j].user_id = u}}

\* ORDER BY date
RECURSIVE Ascending(_)
Ascending(S) == IF S = {} THEN <<>> ELSE <<Min(S)>> \o Ascending(S \ {Min(S)})

\* ORDER BY date DESC
RECURSIVE Descending(_)
Descending(S) == IF S = {} THEN <<>> ELSE <<Max(S)>> \o Descending(S \ {Max(S)})

\* [row["date"] for row in cur.fetchall()]: the values of a DATE column as the
\* driver hands them over
Fetched(dates) == [k \in DOMAIN dates |-> DateColumn(dates[k])]

\* the loop of get_current_streak over dates[1:], from the k-th element on
RECURSIVE CountBack(_, _, _, _)
CountBack(dates, k, streak, expected_date) ==
    IF k > Len(dates) THEN Value(streak)
    ELSE LET date == strptime(dates[k])
         IN IF ~date.ok THEN date
            ELSE IF date.value = expected_date
                 THEN CountBack(dates, k + 1, streak + 1, date.value - 1)
                 ELSE Value(streak)

\* get_current_streak after the query, dates being the list it fetched
CurrentStreak(dates, today) ==
    IF dates = <<>> THEN Value(0)
    ELSE LET most_recent == strptime(dates[1])
         IN IF ~most_recent.ok THEN most_recent
            ELSE IF most_recent.value \notin {today, today - 1} THEN Value(0)
                 ELSE CountBack(dates, 2, 1, most_recent.value - 1)

\* the loop of get_longest_streak, from index i on
RECURSIVE LongestLoop(_, _, _, _)
LongestLoop(dates, i, longest, current) ==
    IF i > Len(dates) THEN Value(longest)
    ELSE IF dates[i] - dates[i - 1] = 1
         THEN LongestLoop(dates, i + 1, Max({longest, current + 1}), current + 1)
         ELSE LongestLoop(dates, i + 1, longest, 1)

\* get_longest_streak after the query, rows being the list it fetched
LongestStreak(rows) ==
    IF \E k \in DOMAIN rows : ~strptime(rows[k]).ok THEN Raised("TypeError")
    ELSE LET dates == [k \in DOMAIN rows |-> strptime(rows[k]).value]
         IN IF dates = <<>> THEN Value(0) ELSE LongestLoop(dates, 2, 1, 1)

\* what a call of a streak function leaves in last
StreakCall(op, u, today, result) ==
    [op |-> op, user_id |-> u, today |-> today, result |-> result]

\* POST /log by user u; log_date = NULL: a date that is not YYYY-MM-DD
log_hours(u, log_date) ==
    /\ seq.time_logs < MaxLogs
    /\ IF log_date = NULL
       THEN UNCHANGED <<db, seq>>
       ELSE /\ db' = [db EXCEPT !.time_logs =
                         Insert(@, seq.time_logs + 1, [user_id |-> u, date |-> log_date])]
            /\ seq' = [seq EXCEPT !.time_logs = @ + 1]
    /\ UNCHANGED <<last, txn, hist>>

\* POST /delete-log/<date>: the DELETE names no user
delete_log(date) ==
    /\ db' = [db EXCEPT !.time_logs = Delete(@, {i \in DOMAIN @ : @[i].date = date})]
    /\ UNCHANGED <<seq, last, txn, hist>>

\* get_current_streak(user_id) called on the day today
get_current_streak(user_id, today) ==
    /\ last' = StreakCall("get_current_streak", user_id, today,
                          CurrentStreak(Fetched(Descending(LoggedDates(db.time_logs, user_id))),
                                        today))
    /\ UNCHANGED <<db, seq, txn, hist>>

get_longest_streak(user_id) ==
    /\ last' = StreakCall("get_longest_streak", user_id, NULL,
                          LongestStreak(Fetched(Ascending(LoggedDates(db.time_logs, user_id)))))
    /\ UNCHANGED <<db, seq, txn, hist>>

\* the users log hours and delete logs, and the dashboard computes the streaks
InitStreak ==
    /\ db = [phases |-> <<>>, weeks |-> <<>>, days |-> <<>>, resources |-> <<>>,
             blocked_days |-> <<>>, time_logs |-> <<>>]
    /\ seq = [phases |-> 0, weeks |-> 0, days |-> 0, resources |-> 0, time_logs |-> 0]
    /\ last = StreakCall("none", NULL, NULL, Value(0))
    /\ txn = Returned
    /\ hist = NoHist

NextStreak ==
    \/ \E u \in Users, log_date \in {NULL} \cup 1..MaxLogDate : log_hours(u, log_date)
    \/ \E date \in 1..MaxLogDate : delete_log(date)
    \/ \E u \in Users, today \in 1..MaxLogDate : get_current_streak(u, today)
    \/ \E u \in Users : get_longest_streak(u)

SpecStreak == InitStreak /\ [][NextStreak]_vars

\* ------------------------------------------------------------ properties
ContainerTables == {"phases", "weeks", "days"}

PositionsOf(t, S) == {t[i].order_index : i \in S}

\* pairwise distinct positions
DistinctIn(t, S) == \A a \in S, b \in S : a # b => t[a].order_index # t[b].order_index

\* pairwise distinct positions that form 0..n-1
DenseIn(t, S) == DistinctIn(t, S) /\ PositionsOf(t, S) = 0..(Cardinality(S) - 1)

\* C1: in every committed state, for every owner and every parent scope of the
\* three container tiers, no two siblings have the same order_index.
C1_UniquePositions ==
    \A tn \in ContainerTables : \A a \in DOMAIN db[tn], b \in DOMAIN db[tn] :
        (a # b /\ db[tn][a].user_id = db[tn][b].user_id
               /\ db[tn][a].parent = db[tn][b].parent)
            => db[tn][a].order_index # db[tn][b].order_index

\* a week holds two days whose positions are not in the order of their creation
\* (one was moved) after another day has been deleted
C1_Witness ==
    /\ seq.days > Cardinality(DOMAIN db.days)
    /\ \E a \in DOMAIN db.days, b \in DOMAIN db.days :
          /\ a < b
          /\ db.days[a].parent = db.days[b].parent
          /\ db.days[a].order_index > db.days[b].order_index

\* C2: after any sequence of append, move and delete operations from the empty
\* hierarchy, the positions of the n siblings of every scope are exactly 0..n-1.
C2_DensePositions ==
    \A tn \in ContainerTables : \A i \in DOMAIN db[tn] :
        DenseIn(db[tn], Siblings(db[tn], db[tn][i].user_id, db[tn][i].parent))

\* the step is a move that went through
MoveStep == last'.op = "reorder" /\ last'.result = "ok"

\* C3: a successful move between scopes that hold dense positions, to a valid
\* post-move index, leaves both scopes with dense positions (all three branches).
C3_MoveKeepsDense ==
    [][ LET t == db[table_map(last'.model)]
            t2 == db'[table_map(last'.model)]
            u == last'.user_id
            old == Siblings(t, u, last'.old_parent_id)
            new == Siblings(t, u, last'.new_parent_id)
        IN (/\ MoveStep
            /\ DenseIn(t, old) /\ DenseIn(t, new)
            /\ IF last'.old_parent_id = last'.new_parent_id
               THEN last'.new_index < Cardinality(old)
               ELSE last'.new_index <= Cardinality(new))
           => /\ DenseIn(t2, Siblings(t2, u, last'.old_parent_id))
              /\ DenseIn(t2, Siblings(t2, u, last'.new_parent_id)) ]_vars

\* C4: a move within one parent puts the item at new_position, adds one to exactly
\* the siblings in [new_position, old_position) when moving earlier, subtracts one
\* from exactly the siblings in (old_position, new_position] when moving later,
\* and leaves every other sibling where it was.
C4_SameParentShift ==
    [][ LET t == db[table_map(last'.model)]
            t2 == db'[table_map(last'.model)]
            item == last'.item_id
            o == last'.old_order_index
            n == last'.new_index
        IN (MoveStep /\ last'.old_parent_id = last'.new_parent_id)
           => /\ t2[item].order_index = n
              /\ t2[item].parent = last'.new_parent_id
              /\ \A i \in Siblings(t, last'.user_id, last'.old_parent_id) \ {item} :
                    t2[i].order_index =
                       IF n < o /\ n <= t[i].order_index /\ t[i].order_index < o
                       THEN t[i].order_index + 1
                       ELSE IF n > o /\ o < t[i].order_index /\ t[i].order_index <= n
                       THEN t[i].order_index - 1
                       ELSE t[i].order_index ]_vars

\* C5: after a move of X from (P, i) to (P, j) in a parent with dense positions,
\* the move of X back to (P, i) restores the position of X and of every sibling.
C5_RoundTrip ==
    [][ LET tn == table_map(last'.model)
            u == last'.user_id
            item == last'.item_id
            P == last'.old_parent_id
            i == last'.old_order_index
        IN (/\ MoveStep
            /\ last'.new_parent_id = P
            /\ DenseIn(db[tn], Siblings(db[tn], u, P)))
           => \A fail \in Outcomes(db', last'.model, item, P, i, u) :
                 LET back == reorder_structure(db', last'.model, item, P, i, u, fail)
                 IN back.result = "ok" => back.table = db[tn] ]_vars

\* C6: a move that fails (request rejected, item or parent missing or not owned,
\* database error) leaves every table as it was before the call.
C6_FailedMoveLeavesOrder ==
    [][ (last'.op = "reorder" /\ last'.result \notin {"ok", "noop"}) => db' = db ]_vars

\* a move was rolled back after a database error
C6_Witness == last.op = "reorder" /\ last.result = "db_error"

Serial(d, a) ==
    LET r == reorder_structure(d, a.model, a.item_id, a.new_parent_id, a.new_index,
                               a.user_id, 0)
    IN IF /\ r.result = "ok"
          /\ 0 \in Outcomes(d, a.model, a.item_id, a.new_parent_id, a.new_index, a.user_id)
       THEN {[d EXCEPT ![table_map(a.model)] = r.table]}
       ELSE {}

\* the tables the committed moves leave when they run one after the other
SerialResults(base, done) ==
    LET C == {p \in Procs : done[p].model # "none"}
    IN IF C = {} THEN {base}
       ELSE IF Cardinality(C) = 1 THEN Serial(base, done[CHOOSE p \in C : TRUE])
       ELSE UNION {UNION {Serial(d, done[Other(p)]) : d \in Serial(base, done[p])} : p \in Procs}

\* C8: whatever the interleaving of two reorder_structure calls, the committed
\* weeks and days have pairwise distinct positions in every scope and are what the
\* committed moves give when run one after the other in some order.
C8_ConcurrentMoves ==
    /\ \A tn \in {"weeks", "days"} : \A i \in DOMAIN db[tn] :
          DistinctIn(db[tn], Siblings(db[tn], db[tn][i].user_id, db[tn][i].parent))
    /\ db \in SerialResults(hist.base, hist.done)

\* of two moves that ran at the same time one has committed and changed the
\* tables, and the other, which had read the rows before, was cancelled when it
\* locked a row the first one had updated
C8_Witness ==
    /\ hist.concurrent
    /\ db # hist.base
    /\ \E p \in Procs : /\ hist.outcome[p] = "ok"
                        /\ hist.outcome[Other(p)] = "concurrent_update"

\* C9: no committed week or day holds the eviction sentinel, and a row an open
\* move has written is committed as it was when the move began.
C9_NoIntermediateState ==
    /\ \A tn \in {"weeks", "days"} : \A i \in DOMAIN db[tn] :
          db[tn][i].order_index # SENTINEL
    /\ \A p \in Procs : txn[p].pc # "idle" =>
          \A r \in txn[p].written : db[table_map(txn[p].model)][r] = txn[p].snap[r]

\* a move has evicted its item and shifted a sibling while the other connection
\* has a transaction open
C9_Witness ==
    \E p \in Procs :
        /\ txn[p].pc = "run"
        /\ txn[Other(p)].pc # "idle"
        /\ txn[p].w[txn[p].item_id].order_index = SENTINEL
        /\ Cardinality(txn[p].written) > 1

\* C10: a created phase, week, day or resource is placed after every sibling it
\* finds, and at n when the n siblings hold 0..n-1 (0 in an empty parent).
C10_AppendPosition ==
    (last.op \in {"create", "add_resource"} /\ last.result = "ok") =>
        LET S == IF last.op = "add_resource"
                 THEN {i \in DOMAIN db.resources \ {last.item_id} :
                          db.resources[i].day_id = last.new_parent_id}
                 ELSE Siblings(db[TableOf(last.model)], last.user_id, last.new_parent_id)
                         \ {last.item_id}
            P == IF last.op = "add_resource"
                 THEN {db.resources[i].sort_order : i \in S}
                 ELSE PositionsOf(db[TableOf(last.model)], S)
        IN /\ \A o \in P : last.order > o
           /\ P = 0..(Cardinality(S) - 1) => last.order = Cardinality(S)

\* the resources attached to the Day of resource r
SameDay(t, r) == {i \in DOMAIN t : t[i].user_id = t[r].user_id /\ t[i].day_id = t[r].day_id}

\* C11: in every state reached by resource creation, import and resource reorder
\* requests, no two resources of one owner attached to the same Day have an equal
\* sort_order.
C11_StrictResourceOrder ==
    \A a \in DOMAIN db.resources : \A b \in SameDay(db.resources, a) :
        (a # b /\ db.resources[a].day_id # NULL)
            => db.resources[a].sort_order # db.resources[b].sort_order

\* C12: after a resource reorder request that names the Day of the resource and a
\* target index new_position inside it, the moved resource is at zero-based index
\* new_position among the resources of its Day sorted by sort_order.
C12_MovedToNewPosition ==
    (/\ last.op \in {"reorder_resource", "api_reorder_resource"}
     /\ last.result = "ok"
     /\ last.item_id \in DOMAIN db.resources
     /\ \A i \in SameDay(db.resources, last.item_id) : db.resources[i].pwd = last.pwd
     /\ last.new_index < Cardinality(SameDay(db.resources, last.item_id)))
        => Rank(db.resources, SameDay(db.resources, last.item_id), last.item_id)
               = last.new_index

\* the dates user u has blocked
BlockedBy(d, u) == {x \in DOMAIN d.blocked_days : d.blocked_days[x].user_id = u}

\* C13: in every committed state, those between the commit of block_day or
\* unblock_day and the recalculation included, no resource is scheduled on a date
\* its owner has blocked.
C13_NoResourceOnBlockedDate ==
    \A i \in DOMAIN db.resources :
        db.resources[i].scheduled_date \notin BlockedBy(db, db.resources[i].user_id)

\* position of the Day of resource i in the global order of the containers
GlobalPosition(d, i) == PositionOf(d, d.resources[i].day_id)

\* the Day positions that hold a resource scheduled on or after pivot
DatedFrom(d, pivot) ==
    {GlobalPosition(d, i) : i \in {j \in DOMAIN d.resources :
                                     d.resources[j].scheduled_date >= pivot}}

\* a step that runs recalculate_schedule_from(txn.from_date)
RecalculateStep == txn.pc = "recalculate" /\ txn'.pc = "idle"

\* C14: recalculate_schedule_from(pivot) changes neither scheduled_date nor
\* original_date of a resource whose Day lies before the earliest Day that holds a
\* resource scheduled on or after pivot.
C14_EarlierGroupsUntouched ==
    [][RecalculateStep =>
         \A i \in DOMAIN db.resources :
            (/\ DatedFrom(db, txn.from_date) # {}
             /\ Precedes(GlobalPosition(db, i), First(DatedFrom(db, txn.from_date))))
               => /\ db'.resources[i].scheduled_date = db.resources[i].scheduled_date
                  /\ db'.resources[i].original_date = db.resources[i].original_date]_vars

\* C15: in every state and for every pivot d, a second recalculate_schedule_from(d)
\* right after the first leaves every scheduled_date as the first left it.
C15_RecalculateIdempotent ==
    \A d \in 1..MaxDate :
        LET once == [db EXCEPT !.resources = Recalculated(db, d)]
        IN \A i \in DOMAIN db.resources :
              Recalculated(once, d)[i].scheduled_date = once.resources[i].scheduled_date

\* C18: in every state all resources attached to one Day have the same
\* scheduled_date.
C18_SameDaySameDate ==
    \A a \in DOMAIN db.resources : \A b \in SameDay(db.resources, a) :
        db.resources[a].scheduled_date = db.resources[b].scheduled_date

\* a step of calculate_schedule or of recalculate_schedule_from
ScheduleStep == (\E s \in 1..MaxDate : calculate_schedule(s)) \/ recalculate_schedule_from

\* C19: no calculate_schedule or recalculate_schedule_from call changes an
\* original_date that is not NULL.
C19_OriginalDateKept ==
    [][ScheduleStep =>
         \A i \in DOMAIN db.resources :
            db.resources[i].original_date # NULL
               => db'.resources[i].original_date = db.resources[i].original_date]_vars

\* a resource whose scheduled_date has moved away from its original_date
C19_Witness ==
    \E i \in DOMAIN db.resources :
        /\ db.resources[i].original_date # NULL
        /\ db.resources[i].scheduled_date # db.resources[i].original_date

\* the k-th date from date on that is not in blocked
RECURSIVE NthFree(_, _, _)
NthFree(blocked, date, k) ==
    IF date \in blocked THEN NthFree(blocked, date + 1, k)
    ELSE IF k = 1 THEN date
    ELSE NthFree(blocked, date + 1, k - 1)

\* number of Days with resources up to and including the Day of resource i
GroupNumber(d, i) ==
    Cardinality({g \in {GlobalPosition(d, j) : j \in DOMAIN d.resources} :
                    g = GlobalPosition(d, i) \/ Precedes(g, GlobalPosition(d, i))})

\* C20: calculate_schedule(start_date) gives the resources of the k-th Day in
\* global order the k-th date from start_date on that the owner has not blocked.
C20_KthFreeDate ==
    [][\A s \in 1..MaxDate :
          calculate_schedule(s) =>
             \A i \in DOMAIN db.resources :
                db'.resources[i].scheduled_date =
                   NthFree(BlockedBy(db, db.resources[i].user_id), s, GroupNumber(db, i))]_vars

\* resource a comes before resource b in the global leaf ordering
LeafBefore(d, a, b) ==
    \/ Precedes(GlobalPosition(d, a), GlobalPosition(d, b))
    \/ /\ GlobalPosition(d, a) = GlobalPosition(d, b)
       /\ d.resources[a].sort_order < d.resources[b].sort_order

\* C16: after calculate_schedule or recalculate_schedule_from, of two scheduled
\* resources the one that comes first in the global leaf ordering has no later
\* scheduled_date than the other.
C16_DatesFollowLeafOrder ==
    [][ScheduleStep =>
         \A a \in DOMAIN db'.resources : \A b \in DOMAIN db'.resources :
            (/\ db'.resources[a].scheduled_date # NULL
             /\ db'.resources[b].scheduled_date # NULL
             /\ LeafBefore(db', a, b))
               => db'.resources[a].scheduled_date <= db'.resources[b].scheduled_date]_vars

\* C17: calculate_schedule walks the Days in the order of the order_index of
\* their phase, week and day: a resource of an earlier Day gets an earlier date
\* than a resource of a later Day, also after reorder_structure has moved them.
C17_ProjectionFollowsContainers ==
    [][(\E s \in 1..MaxDate : calculate_schedule(s)) =>
         \A a \in DOMAIN db.resources : \A b \in DOMAIN db.resources :
            Precedes(GlobalPosition(db, a), GlobalPosition(db, b))
               => db'.resources[a].scheduled_date < db'.resources[b].scheduled_date]_vars

\* number of Days with resources from position from up to and including the Day
\* of resource i
GroupNumberFrom(d, from, i) ==
    Cardinality({g \in {GlobalPosition(d, j) : j \in DOMAIN d.resources} :
                    /\ g = from \/ Precedes(from, g)
                    /\ g = GlobalPosition(d, i) \/ Precedes(g, GlobalPosition(d, i))})

\* C21: recalculate_schedule_from(pivot) gives the Days from the earliest Day that
\* holds a resource scheduled on or after pivot onward, in order, the successive
\* dates from pivot on that are not blocked.
C21_RecalculateWalksFreeDates ==
    [][RecalculateStep =>
         \A i \in DOMAIN db.resources :
            (/\ DatedFrom(db, txn.from_date) # {}
             /\ ~Precedes(GlobalPosition(db, i), First(DatedFrom(db, txn.from_date))))
               => db'.resources[i].scheduled_date =
                     NthFree(BlockedBy(db, db.resources[i].user_id), txn.from_date,
                             GroupNumberFrom(db, First(DatedFrom(db, txn.from_date)), i))]_vars

\* C26: calculate_schedule with no curriculum day, and recalculate_schedule_from
\* when no resource is scheduled on or after the pivot, return and leave every
\* scheduled_date and original_date as they were.
C26_EmptyScheduleNoOp ==
    [][/\ ((\E s \in 1..MaxDate : calculate_schedule(s)) /\ CurriculumDays(db.resources) = {})
             => db'.resources = db.resources
       /\ (RecalculateStep /\ DatedFrom(db, txn.from_date) = {})
             => db'.resources = db.resources]_vars

\* block_day has returned on a curriculum that has resources and no date yet
C26_Witness ==
    /\ txn.pc = "idle"
    /\ DOMAIN db.blocked_days # {}
    /\ DOMAIN db.resources # {}
    /\ \A i \in DOMAIN db.resources : db.resources[i].scheduled_date = NULL

\* C29: once a start date is set, after any sequence of block_day and unblock_day
\* requests every scheduled_date is the one calculate_schedule(start date) would
\* assign under the blocked dates of the moment.
C29_RecalculationAgreesWithProjection ==
    (txn.pc = "idle" /\ last.start_date # NULL)
        => \A i \in DOMAIN db.resources :
              db.resources[i].scheduled_date
                 = Projected(db, last.start_date)[i].scheduled_date

\* C30: once a start date is set, no resource is scheduled before it, whatever
\* dates are blocked and unblocked afterwards.
C30_NoDateBeforeStart ==
    \A i \in DOMAIN db.resources :
        (last.start_date # NULL /\ db.resources[i].scheduled_date # NULL)
            => db.resources[i].scheduled_date >= last.start_date

\* C22: the recalculation that block_day or unblock_day of one owner triggers
\* changes no scheduled_date of a resource of another owner.
C22_OtherOwnersUntouched ==
    [][RecalculateStep =>
         \A i \in DOMAIN db.resources :
            db.resources[i].user_id # txn.user_id
               => db'.resources[i].scheduled_date = db.resources[i].scheduled_date]_vars

\* C23: while a projection or a recalculation runs, the committed resources
\* table is the one the run started from; a step of the run leaves it so or
\* replaces it with the whole result of the run, and a run that ends before its
\* last UPDATE (a failure) leaves every date as it was.
C23_AllOrNothing ==
    [][txn.pc = "walk" =>
         /\ db.resources = txn.before
         /\ db'.resources \in {txn.before,
                                IF txn.project THEN Projected(db, txn.from_date)
                                ELSE Recalculated(db, txn.from_date)}
         /\ (txn.curriculum_days # {} => db'.resources = txn.before)]_vars

\* a run over a schedule assigned before has written some of its dates, not all
C23_Witness ==
    /\ txn.pc = "walk"
    /\ txn.curriculum_days # {}
    /\ txn.work # txn.before
    /\ \A i \in DOMAIN txn.before : txn.before[i].scheduled_date # NULL

\* a request that sets statuses: toggle_resource, bulk_action with complete,
\* progress or skip, update_resource_status
StatusStep ==
    \/ \E u \in Users, resource_id \in 1..MaxResources : toggle_resource(u, resource_id)
    \/ \E action \in {"complete", "progress", "skip"}, ids \in SUBSET (1..MaxResources) :
          bulk_action(action, ids)
    \/ \E resource_id \in 1..MaxResources, new_status \in VALID_STATUSES :
          update_resource_status(resource_id, new_status)

\* C24: a request that toggles or sets statuses keeps every resource, and changes
\* no resource's sort_order, day, scheduled_date or original_date.
C24_StatusKeepsPositionAndDates ==
    [][StatusStep =>
         /\ DOMAIN db'.resources = DOMAIN db.resources
         /\ \A i \in DOMAIN db.resources :
               /\ db'.resources[i].sort_order = db.resources[i].sort_order
               /\ db'.resources[i].day_id = db.resources[i].day_id
               /\ db'.resources[i].pwd = db.resources[i].pwd
               /\ db'.resources[i].scheduled_date = db.resources[i].scheduled_date
               /\ db'.resources[i].original_date = db.resources[i].original_date]_vars

\* a scheduled resource has been toggled twice, another one has been skipped
C24_Witness ==
    /\ Len(hist.trail) > 2
    /\ hist.resource_id \in DOMAIN db.resources
    /\ db.resources[hist.resource_id].scheduled_date # NULL
    /\ \E i \in DOMAIN db.resources :
          db.resources[i].status = "skipped" /\ db.resources[i].scheduled_date # NULL

\* the steps of the toggle
CycleSteps ==
    {<<"not_started", "in_progress">>, <<"in_progress", "complete">>,
     <<"complete", "not_started">>, <<"skipped", "not_started">>}

\* C25: toggle_resource takes not_started to in_progress, in_progress to
\* complete, complete and skipped to not_started; a status becomes skipped only
\* in bulk_action skip or update_resource_status with skipped; CYCLE_LENGTH toggles
\* in a row from a status other than skipped end on the status they started from.
C25_ToggleCycle ==
    [][/\ \A u \in Users, i \in DOMAIN db.resources :
            toggle_resource(u, i) /\ db.resources[i].user_id = u
               => <<db.resources[i].status, db'.resources[i].status>> \in CycleSteps
       /\ \A i \in DOMAIN db.resources \cap DOMAIN db'.resources :
            db'.resources[i].status = "skipped" /\ db.resources[i].status # "skipped"
               => \/ \E ids \in SUBSET (1..MaxResources) : bulk_action("skip", ids)
                  \/ update_resource_status(i, "skipped")
       /\ Len(hist'.trail) = CYCLE_LENGTH + 1 /\ hist'.trail[1] # "skipped"
            => hist'.trail[CYCLE_LENGTH + 1] = hist'.trail[1]]_vars

\* a resource has been toggled CYCLE_LENGTH times in a row, starting from complete
C25_Witness ==
    /\ Len(hist.trail) = CYCLE_LENGTH + 1
    /\ hist.trail[1] = "complete"
    /\ hist.resource_id \in DOMAIN db.resources
    /\ db.resources[hist.resource_id].status = "complete"

\* the length of the longest run of consecutive days in S, 0 for no day
LongestRun(S) ==
    IF S = {} THEN 0
    ELSE Max({k \in 1..Cardinality(S) : \E d \in S : d..(d + k - 1) \subseteq S})

\* C27: get_longest_streak returns the length of the longest run of consecutive
\* days among the dates the user logged, and 0 when the user has no log.
C27_LongestStreak ==
    [][\A u \in Users :
          get_longest_streak(u)
             => last'.result = Value(LongestRun(LoggedDates(db.time_logs, u)))]_vars

\* the length of the run of consecutive days of S that ends on its last day
RunToLast(S) == Max({k \in 1..Cardinality(S) : (Max(S) - k + 1)..Max(S) \subseteq S})

\* C28: get_current_streak returns 0 when the user has no log or the most recent
\* logged date is neither today nor yesterday, and otherwise the length of the
\* run of consecutive days that ends on the most recent logged date.
C28_CurrentStreak ==
    [][\A u \in Users, today \in 1..MaxLogDate :
          get_current_streak(u, today)
             => LET S == LoggedDates(db.time_logs, u)
                IN last'.result = IF S = {} \/ Max(S) \notin {today, today - 1}
                                  THEN Value(0)
                                  ELSE Value(RunToLast(S))]_vars

====
